---- MODULE Spec2Model ----
(***************************************************************************)
(* A model of solana_grpc/async_.py: the header interceptors               *)
(* (_WithHeaders, WithHeadersUnaryUnary, WithHeadersStreamStream) and the   *)
(* GeyserClient (start, close, scoped use, the four unary operations and    *)
(* the subscribe async generator), together with the part of the grpc.aio   *)
(* transport the client drives: channels, unary calls and bidirectional     *)
(* streams.                                                                 *)
(***************************************************************************)
EXTENDS Integers, Sequences, FiniteSets, TLC

\* ------------------------------------------------------------------ bounds
MaxChannels == 2    \* start() calls made over the life of one client
MaxGens == 2        \* subscribe() calls made over the life of one client
MaxReqs == 2        \* requests passed to one subscribe() call
MaxUpdates == 2     \* updates the server pushes on one stream
MaxMeta == 2        \* pairs of pre-existing metadata on an intercepted call
MaxHeaders == 2     \* pairs an interceptor is constructed with

\* ------------------------------------------------------------------ values
Tokens == {"tokA", "tokB"}
Requests == {"r1", "r2"}
Updates == {"u1", "u2"}
RpcErrors == {"UNAVAILABLE", "UNAUTHENTICATED"}
UnaryOps == {"ping", "get_version", "get_latest_blockhash", "get_block_height"}
ExitPaths == {"return", "error", "cancel"}
Pairs == {<<"x-token", "tokA">>, <<"k", "v">>}
Methods == {"/geyser.Geyser/Ping", "/geyser.Geyser/Subscribe"}
Timeouts == {"None", "5s"}
Credentials == {"None", "call_creds"}
WaitFlags == {"None", "True"}

SeqsUpTo(S, n) == UNION {[1..k -> S] : k \in 0..n}

\* Optional metadata: Python's None, or a sequence of (key, value) pairs.
NoMetadata == [none |-> TRUE, items |-> <<>>]
SomeMetadata(items) == [none |-> FALSE, items |-> items]
MetadataInputs == {NoMetadata} \cup {SomeMetadata(m) : m \in SeqsUpTo(Pairs, MaxMeta)}

CallDetails(method, timeout, metadata, credentials, wait_for_ready) ==
    [method |-> method, timeout |-> timeout, metadata |-> metadata,
     credentials |-> credentials, wait_for_ready |-> wait_for_ready]

DetailsInputs ==
    {CallDetails(m, t, md, c, w) :
        m \in Methods, t \in Timeouts, md \in MetadataInputs,
        c \in Credentials, w \in WaitFlags}

\* No call details: the call never got as far as the interceptor.
NoDetails == CallDetails("None", "None", NoMetadata, "None", "None")

\* ---------------------------------------------------------- _WithHeaders
\* Mutants of _insert_headers: one that skips a pair the call already
\* carries, one that forgets to pass the timeout on.
insert_headers_dedup(new_metadata, client_call_details) ==
    LET metadata == IF ~client_call_details.metadata.none
                    THEN client_call_details.metadata.items
                    ELSE <<>>
        fresh == SelectSeq(new_metadata,
                           LAMBDA p : \A i \in 1..Len(metadata) : metadata[i] # p)
    IN CallDetails(client_call_details.method,
                   client_call_details.timeout,
                   SomeMetadata(metadata \o fresh),
                   client_call_details.credentials,
                   client_call_details.wait_for_ready)

insert_headers_notimeout(new_metadata, client_call_details) ==
    LET metadata == IF ~client_call_details.metadata.none
                    THEN client_call_details.metadata.items
                    ELSE <<>>
    IN CallDetails(client_call_details.method,
                   "None",
                   SomeMetadata(metadata \o new_metadata),
                   client_call_details.credentials,
                   client_call_details.wait_for_ready)

\* _insert_headers: metadata = [] or list(details.metadata); extend with the
\* new pairs; every other field is copied.
insert_headers(new_metadata, client_call_details) ==
    LET metadata == IF ~client_call_details.metadata.none
                    THEN client_call_details.metadata.items
                    ELSE <<>>
    IN CallDetails(client_call_details.method,
                   client_call_details.timeout,
                   SomeMetadata(metadata \o new_metadata),
                   client_call_details.credentials,
                   client_call_details.wait_for_ready)

\* Mutant: an RPC error is caught and None is returned.
Propagate_swallow(outcome) ==
    IF outcome \in RpcErrors THEN "None" ELSE outcome

\* `return await continuation(...)` / `return await self.stub.X(request)`:
\* whatever the awaited call returns or raises is what the caller gets.
Propagate(outcome) == outcome

\* The method path the generated stub uses for each client operation.
MethodOf(op) ==
    CASE op = "ping" -> "/geyser.Geyser/Ping"
      [] op = "get_version" -> "/geyser.Geyser/GetVersion"
      [] op = "get_latest_blockhash" -> "/geyser.Geyser/GetLatestBlockhash"
      [] op = "get_block_height" -> "/geyser.Geyser/GetBlockHeight"
      [] op = "subscribe" -> "/geyser.Geyser/Subscribe"

\* The client's operations pass no metadata, timeout, credentials or
\* wait_for_ready to the stub.
StubDetails(op) == CallDetails(MethodOf(op), "None", NoMetadata, "None", "None")

\* ---------------------------------------------------------------- state
VARIABLES
    x_token,    \* GeyserClient._x_token
    stub,       \* GeyserClient.stub: unset (annotation only), none, or bound
    channel,    \* GeyserClient.channel: unset, none, or bound to a channel
    chans,      \* the transport's channels, in the order start() opened them
    scope,      \* scoped use: "none", "body" (inside async with), "exited"
    scopeChan,  \* the channel opened on entry to the scope (0: none)
    exitPath,   \* how the scope body was left
    gens,       \* the async generators returned by subscribe()
    streams,    \* the transport's Subscribe streams
    lastCall,   \* the last start/close/unary operation and its outcome
    icpt        \* the last direct invocation of an interceptor

vars == <<x_token, stub, channel, chans, scope, scopeChan, exitPath,
          gens, streams, lastCall, icpt>>

clientVars == <<x_token, stub, channel, chans, scope, scopeChan, exitPath,
                gens, streams, lastCall>>

Unset == [ref |-> "unset", chan |-> 0]
NoneRef == [ref |-> "none", chan |-> 0]
Bound(c) == [ref |-> "bound", chan |-> c]

NoCall ==
    [op |-> "none", stubAt |-> "unset", sent |-> NoDetails, attempts |-> 0,
     transport |-> "none", result |-> "none"]

IcptIdle ==
    [shape |-> "none", headers |-> <<>>, inp |-> NoDetails, out |-> NoDetails,
     request |-> "none", passed |-> "none", continuations |-> 0,
     transport |-> "none", result |-> "none",
     prevShape |-> "none", prevOut |-> NoDetails]

\* __init__ stores the target and the token; stub and channel are only
\* annotated, so the attributes do not exist yet.
Init ==
    /\ x_token \in Tokens
    /\ stub = Unset
    /\ channel = Unset
    /\ chans = <<>>
    /\ scope = "none"
    /\ scopeChan = 0
    /\ exitPath = "none"
    /\ gens = <<>>
    /\ streams = <<>>
    /\ lastCall = NoCall
    /\ icpt = IcptIdle

\* -------------------------------------------------------- GeyserClient
\* Mutant: only the unary-unary interceptor is installed.
NewChannel_unaryOnly(token) ==
    [open |-> TRUE,
     interceptors |-> <<[shape |-> "unary_unary", headers |-> <<<<"x-token", token>>>>]>>]

\* The channel start() builds: secure, with one stream-stream and one
\* unary-unary interceptor, each constructed with the ("x-token", token) pair.
NewChannel(token) ==
    [open |-> TRUE,
     interceptors |-> <<[shape |-> "stream_stream", headers |-> <<<<"x-token", token>>>>],
                        [shape |-> "unary_unary", headers |-> <<<<"x-token", token>>>>]>>]

\* Mutant: every interceptor of the channel runs on every call.
InterceptorsFor_all(c, shape) == chans[c].interceptors

\* The interceptors of a channel that apply to a call of the given shape.
InterceptorsFor(c, shape) ==
    SelectSeq(chans[c].interceptors, LAMBDA i : i.shape = shape)

\* The call details that reach the transport once every applicable
\* interceptor has run, in order.
RECURSIVE ThroughInterceptors(_, _)
ThroughInterceptors(is, details) ==
    IF is = <<>> THEN details
    ELSE ThroughInterceptors(Tail(is), insert_headers(Head(is).headers, details))

\* Mutant: start() rebinds the channel but keeps a stub it already has.
StartEffect_staleStub ==
    /\ Len(chans) < MaxChannels
    /\ chans' = Append(chans, NewChannel(x_token))
    /\ channel' = Bound(Len(chans) + 1)
    /\ stub' = IF stub.ref = "bound" THEN stub ELSE Bound(Len(chans) + 1)

\* Mutant: start() closes the channel it replaces.
StartEffect_closesOld ==
    /\ Len(chans) < MaxChannels
    /\ chans' = Append(IF channel.ref = "bound"
                       THEN [chans EXCEPT ![channel.chan].open = FALSE]
                       ELSE chans,
                       NewChannel(x_token))
    /\ channel' = Bound(Len(chans) + 1)
    /\ stub' = Bound(Len(chans) + 1)

\* start(): a new channel and a stub bound to it replace the references.
StartEffect ==
    /\ Len(chans) < MaxChannels
    /\ chans' = Append(chans, NewChannel(x_token))
    /\ channel' = Bound(Len(chans) + 1)
    /\ stub' = Bound(Len(chans) + 1)

\* Mutant: closing a channel leaves its calls running.
CancelStreamsOn_leave(c) == streams

\* A channel being closed cancels the calls still in progress on it.
CancelStreamsOn(c) ==
    [s \in 1..Len(streams) |->
        IF streams[s].chan = c /\ streams[s].status = "open"
        THEN [streams[s] EXCEPT !.status = "cancelled"]
        ELSE streams[s]]

\* Mutant: the channel is closed but the stub reference is kept.
CloseEffect_keepStub ==
    IF channel.ref = "bound"
    THEN /\ chans' = [chans EXCEPT ![channel.chan].open = FALSE]
         /\ streams' = CancelStreamsOn(channel.chan)
         /\ channel' = NoneRef
         /\ stub' = stub
         /\ lastCall' = [NoCall EXCEPT !.op = "close",
                                       !.result = "return"]
    ELSE /\ UNCHANGED <<chans, streams, channel, stub>>
         /\ lastCall' = [NoCall EXCEPT !.op = "close",
                                       !.result = "AttributeError"]

\* Mutant: close() with nothing to close returns normally.
CloseEffect_idempotent ==
    IF channel.ref = "bound"
    THEN /\ chans' = [chans EXCEPT ![channel.chan].open = FALSE]
         /\ streams' = CancelStreamsOn(channel.chan)
         /\ channel' = NoneRef
         /\ stub' = NoneRef
         /\ lastCall' = [NoCall EXCEPT !.op = "close",
                                       !.result = "return"]
    ELSE /\ channel' = NoneRef
         /\ stub' = NoneRef
         /\ UNCHANGED <<chans, streams>>
         /\ lastCall' = [NoCall EXCEPT !.op = "close",
                                       !.result = "return"]

\* close(): await self.channel.close(); then both references become None.
\* With no channel attribute, or None, the first line raises AttributeError
\* and nothing is changed.
CloseEffect ==
    IF channel.ref = "bound"
    THEN /\ chans' = [chans EXCEPT ![channel.chan].open = FALSE]
         /\ streams' = CancelStreamsOn(channel.chan)
         /\ channel' = NoneRef
         /\ stub' = NoneRef
         /\ lastCall' = [NoCall EXCEPT !.op = "close",
                                       !.result = "return"]
    ELSE /\ UNCHANGED <<chans, streams, channel, stub>>
         /\ lastCall' = [NoCall EXCEPT !.op = "close",
                                       !.result = "AttributeError"]

\* start() and close() called by the user. Inside the body of a scope the
\* life cycle is left to the scope: calling start() twice without a close
\* is unsupported use, followed outside scopes only.
start ==
    /\ scope # "body"
    /\ StartEffect
    /\ lastCall' = [NoCall EXCEPT !.op = "start",
                                  !.result = "return"]
    /\ UNCHANGED <<x_token, scope, scopeChan, exitPath, gens, streams, icpt>>

close ==
    /\ scope # "body"
    /\ CloseEffect
    /\ UNCHANGED <<x_token, scope, scopeChan, exitPath, gens, icpt>>

\* __aenter__: await self.start(); return self.
aenter ==
    /\ scope = "none"
    /\ StartEffect
    /\ scope' = "body"
    /\ scopeChan' = Len(chans) + 1
    /\ lastCall' = [NoCall EXCEPT !.op = "start",
                                  !.result = "return"]
    /\ UNCHANGED <<x_token, exitPath, gens, streams, icpt>>

\* Mutant: the channel is closed only when the body returned normally.
aexit_cleanOnly(path) ==
    /\ scope = "body"
    /\ IF path = "return"
       THEN CloseEffect
       ELSE UNCHANGED <<chans, streams, channel, stub, lastCall>>
    /\ scope' = "exited"
    /\ exitPath' = path
    /\ UNCHANGED <<x_token, scopeChan, gens, icpt>>

\* __aexit__(*exc): await self.close(), whatever the exception triple is.
aexit(path) ==
    /\ scope = "body"
    /\ CloseEffect
    /\ scope' = "exited"
    /\ exitPath' = path
    /\ UNCHANGED <<x_token, scopeChan, gens, icpt>>

\* ping / get_version / get_latest_blockhash / get_block_height: build the
\* request, then return await self.stub.X(request). The transport's answer
\* (a response, or an RPC error) is an input.
\* self.stub.X raises AttributeError when the attribute is missing or None.
\* A stub whose channel has been closed is refused by the transport
\* (UsageError) before anything is sent.
Unary(op, answer) ==
    /\ IF stub.ref # "bound"
       THEN lastCall' = [NoCall EXCEPT !.op = op, !.stubAt = stub.ref,
                                       !.result = "AttributeError"]
       ELSE IF ~chans[stub.chan].open
       THEN lastCall' = [NoCall EXCEPT !.op = op, !.stubAt = stub.ref,
                                       !.result = "UsageError"]
       ELSE lastCall' =
              [op |-> op, stubAt |-> stub.ref,
               sent |-> ThroughInterceptors(InterceptorsFor(stub.chan, "unary_unary"),
                                            StubDetails(op)),
               attempts |-> 1,
               transport |-> answer,
               result |-> Propagate(Propagate(answer))]
    /\ UNCHANGED <<x_token, stub, channel, chans, scope, scopeChan, exitPath,
                   gens, streams, icpt>>

\* ------------------------------------------------------------ subscribe
NewGen(requests) ==
    [reqs |-> requests, state |-> "created", stream |-> 0, yielded |-> <<>>,
     err |-> "none", last |-> "none", consumer |-> "active",
     stubAt |-> "not pulled"]

Reverse(s) == [i \in 1..Len(s) |-> s[Len(s) + 1 - i]]

\* Mutant: the requests are handed to the stream in reverse order.
NewStream_reversed(c, details, requests) ==
    [chan |-> c, metadata |-> details.metadata.items, src |-> Reverse(requests),
     sent |-> <<>>, inbound |-> <<>>, read |-> 0, status |-> "open",
     err |-> "none"]

\* The stream the transport opens for stub.Subscribe(iter(requests)): the
\* request iterator yields the tuple's elements from left to right.
NewStream(c, details, requests) ==
    [chan |-> c, metadata |-> details.metadata.items, src |-> requests,
     sent |-> <<>>, inbound |-> <<>>, read |-> 0, status |-> "open",
     err |-> "none"]

\* Mutant: the call itself opens the stream when the stub is usable.
subscribe_eager(requests) ==
    /\ Len(gens) < MaxGens
    /\ IF stub.ref = "bound" /\ chans[stub.chan].open
       THEN /\ streams' = Append(streams,
                   NewStream(stub.chan,
                             ThroughInterceptors(
                                 InterceptorsFor(stub.chan, "stream_stream"),
                                 StubDetails("subscribe")),
                             requests))
            /\ gens' = Append(gens, [NewGen(requests) EXCEPT
                                       !.state = "waiting",
                                       !.stream = Len(streams) + 1])
       ELSE /\ streams' = streams
            /\ gens' = Append(gens, NewGen(requests))
    /\ UNCHANGED <<x_token, stub, channel, chans, scope, scopeChan, exitPath,
                   lastCall, icpt>>

\* subscribe(*requests): an async generator function; the call only creates
\* the generator object.
subscribe(requests) ==
    /\ Len(gens) < MaxGens
    /\ gens' = Append(gens, NewGen(requests))
    /\ UNCHANGED <<x_token, stub, channel, chans, scope, scopeChan, exitPath,
                   streams, lastCall, icpt>>

\* First pull: the body starts and evaluates self.stub.Subscribe(iter(requests)).
\* Without a bound stub that raises AttributeError; otherwise the call goes
\* through the stream-stream interceptor and the generator awaits a response.
PullFirst(g) ==
    /\ gens[g].state = "created"
    /\ gens[g].consumer = "active"
    /\ IF stub.ref # "bound"
       THEN /\ gens' = [gens EXCEPT ![g].state = "failed",
                                    ![g].err = "AttributeError",
                                    ![g].last = "error",
                                    ![g].stubAt = stub.ref]
            /\ UNCHANGED streams
       ELSE IF ~chans[stub.chan].open
       THEN /\ gens' = [gens EXCEPT ![g].state = "failed",
                                    ![g].err = "UsageError",
                                    ![g].last = "error",
                                    ![g].stubAt = stub.ref]
            /\ UNCHANGED streams
       ELSE /\ streams' = Append(streams,
                   NewStream(stub.chan,
                             ThroughInterceptors(
                                 InterceptorsFor(stub.chan, "stream_stream"),
                                 StubDetails("subscribe")),
                             gens[g].reqs))
            /\ gens' = [gens EXCEPT ![g].state = "waiting",
                                    ![g].stream = Len(streams) + 1,
                                    ![g].stubAt = stub.ref]
    /\ UNCHANGED <<x_token, stub, channel, chans, scope, scopeChan, exitPath,
                   lastCall, icpt>>

\* A later pull resumes the generator after its yield; the async for asks
\* the stream for the next response.
PullNext(g) ==
    /\ gens[g].state = "suspended"
    /\ gens[g].consumer = "active"
    /\ gens' = [gens EXCEPT ![g].state = "waiting"]
    /\ UNCHANGED <<x_token, stub, channel, chans, scope, scopeChan, exitPath,
                   streams, lastCall, icpt>>

\* What the awaited read of the stream gives the generator: the next unread
\* response; or, with none left, the end of the stream or its error. A call
\* cancelled on the client side raises at once.
ReadReady(s) ==
    \/ streams[s].status = "cancelled"
    \/ streams[s].read < Len(streams[s].inbound)
    \/ streams[s].status \in {"ended", "error"}

\* Mutant: the newest response received is yielded instead of the next one.
Step_latest(gen, st) ==
    IF st.status = "cancelled"
    THEN [gen EXCEPT !.state = "failed", !.err = "CancelledError", !.last = "error"]
    ELSE IF st.read < Len(st.inbound)
    THEN [gen EXCEPT !.state = "suspended",
                     !.yielded = Append(gen.yielded, st.inbound[Len(st.inbound)]),
                     !.last = "value"]
    ELSE IF st.status = "error"
    THEN [gen EXCEPT !.state = "failed", !.err = st.err, !.last = "error"]
    ELSE [gen EXCEPT !.state = "done", !.last = "stop"]

\* Mutant: a stream error is caught and the generator just ends.
Step_swallow(gen, st) ==
    IF st.status = "cancelled"
    THEN [gen EXCEPT !.state = "failed", !.err = "CancelledError", !.last = "error"]
    ELSE IF st.read < Len(st.inbound)
    THEN [gen EXCEPT !.state = "suspended",
                     !.yielded = Append(gen.yielded, st.inbound[st.read + 1]),
                     !.last = "value"]
    ELSE [gen EXCEPT !.state = "done", !.last = "stop"]

\* `async for response in ...: yield response`: each response read is
\* yielded as it is; the end of the stream ends the generator; an error
\* raised by the read propagates out of the generator.
Step(gen, st) ==
    IF st.status = "cancelled"
    THEN [gen EXCEPT !.state = "failed", !.err = "CancelledError", !.last = "error"]
    ELSE IF st.read < Len(st.inbound)
    THEN [gen EXCEPT !.state = "suspended",
                     !.yielded = Append(gen.yielded, st.inbound[st.read + 1]),
                     !.last = "value"]
    ELSE IF st.status = "error"
    THEN [gen EXCEPT !.state = "failed", !.err = st.err, !.last = "error"]
    ELSE [gen EXCEPT !.state = "done", !.last = "stop"]

Resume(g) ==
    /\ gens[g].state = "waiting"
    /\ ReadReady(gens[g].stream)
    /\ gens' = [gens EXCEPT ![g] = Step(gens[g], streams[gens[g].stream])]
    /\ streams' = IF /\ streams[gens[g].stream].status # "cancelled"
                     /\ streams[gens[g].stream].read < Len(streams[gens[g].stream].inbound)
                  THEN [streams EXCEPT ![gens[g].stream].read = @ + 1]
                  ELSE streams
    /\ UNCHANGED <<x_token, stub, channel, chans, scope, scopeChan, exitPath,
                   lastCall, icpt>>

\* Mutant: a pull from an ended generator runs the body of subscribe again.
PullEnded_restart(g) ==
    /\ gens[g].state \in {"done", "failed", "closed"}
    /\ gens[g].consumer = "active"
    /\ stub.ref = "bound"
    /\ chans[stub.chan].open
    /\ streams' = Append(streams,
            NewStream(stub.chan,
                      ThroughInterceptors(InterceptorsFor(stub.chan, "stream_stream"),
                                          StubDetails("subscribe")),
                      gens[g].reqs))
    /\ gens' = [gens EXCEPT ![g].state = "waiting",
                            ![g].stream = Len(streams) + 1]
    /\ UNCHANGED <<x_token, stub, channel, chans, scope, scopeChan, exitPath,
                   lastCall, icpt>>

\* A pull from a generator that has finished, failed or been closed raises
\* StopAsyncIteration and runs no code of subscribe.
PullEnded(g) ==
    /\ gens[g].state \in {"done", "failed", "closed"}
    /\ gens[g].consumer = "active"
    /\ gens[g].last # "stop"
    /\ gens' = [gens EXCEPT ![g].last = "stop"]
    /\ UNCHANGED <<x_token, stub, channel, chans, scope, scopeChan, exitPath,
                   streams, lastCall, icpt>>

\* The consumer leaves its loop (break, return) while the generator is
\* suspended at its yield. No code of subscribe runs.
ConsumerStop(g) ==
    /\ gens[g].state = "suspended"
    /\ gens[g].consumer = "active"
    /\ gens' = [gens EXCEPT ![g].consumer = "stopped"]
    /\ UNCHANGED <<x_token, stub, channel, chans, scope, scopeChan, exitPath,
                   streams, lastCall, icpt>>

\* aclose() of the generator, called by the consumer or scheduled by the
\* event loop once the generator object is unreachable: GeneratorExit is
\* raised at the yield, the frame and the call object it holds are released,
\* and the transport cancels a call that is released unfinished.
Finalize(g) ==
    /\ gens[g].state \in {"created", "suspended"}
    /\ gens' = [gens EXCEPT ![g].state = "closed", ![g].consumer = "stopped"]
    /\ streams' = IF gens[g].stream # 0 /\ streams[gens[g].stream].status = "open"
                  THEN [streams EXCEPT ![gens[g].stream].status = "cancelled"]
                  ELSE streams
    /\ UNCHANGED <<x_token, stub, channel, chans, scope, scopeChan, exitPath,
                   lastCall, icpt>>

\* The task awaiting a pull is cancelled: CancelledError is raised inside
\* the read, which cancels the call before re-raising, and propagates out of
\* the generator.
CancelPull(g) ==
    /\ gens[g].state = "waiting"
    /\ gens' = [gens EXCEPT ![g].state = "failed", ![g].err = "CancelledError",
                             ![g].last = "error"]
    /\ streams' = IF streams[gens[g].stream].status = "open"
                  THEN [streams EXCEPT ![gens[g].stream].status = "cancelled"]
                  ELSE streams
    /\ UNCHANGED <<x_token, stub, channel, chans, scope, scopeChan, exitPath,
                   lastCall, icpt>>

\* ------------------------------------------------------------ transport
\* The transport's sender takes the next request from the iterator.
TransportSend(s) ==
    /\ streams[s].status = "open"
    /\ Len(streams[s].sent) < Len(streams[s].src)
    /\ streams' = [streams EXCEPT
                     ![s].sent = Append(@, streams[s].src[Len(streams[s].sent) + 1])]
    /\ UNCHANGED <<x_token, stub, channel, chans, scope, scopeChan, exitPath,
                   gens, lastCall, icpt>>

ServerPush(s, u) ==
    /\ streams[s].status = "open"
    /\ Len(streams[s].inbound) < MaxUpdates
    /\ streams' = [streams EXCEPT ![s].inbound = Append(@, u)]
    /\ UNCHANGED <<x_token, stub, channel, chans, scope, scopeChan, exitPath,
                   gens, lastCall, icpt>>

ServerEnd(s) ==
    /\ streams[s].status = "open"
    /\ streams' = [streams EXCEPT ![s].status = "ended"]
    /\ UNCHANGED <<x_token, stub, channel, chans, scope, scopeChan, exitPath,
                   gens, lastCall, icpt>>

StreamFail(s, e) ==
    /\ streams[s].status = "open"
    /\ streams' = [streams EXCEPT ![s].status = "error", ![s].err = e]
    /\ UNCHANGED <<x_token, stub, channel, chans, scope, scopeChan, exitPath,
                   gens, lastCall, icpt>>

\* ---------------------------------------------------------- interceptors
\* intercept_unary_unary / intercept_stream_stream, called by the transport
\* on an interceptor constructed with `headers`: the new call details are
\* computed and the continuation is awaited once with them and with the
\* request (or request iterator) received; its outcome is returned. The
\* record keeps the call details the preceding call passed on.

\* Mutant: on an RPC error the continuation is awaited a second time.
intercept_unary_unary_retry(headers, details, request, answer) ==
    /\ icpt' = [shape |-> "unary_unary", headers |-> headers, inp |-> details,
                out |-> insert_headers(headers, details),
                request |-> request, passed |-> request,
                continuations |-> IF answer \in RpcErrors THEN 2 ELSE 1,
                transport |-> answer, result |-> Propagate(answer),
                prevShape |-> icpt.shape, prevOut |-> icpt.out]
    /\ UNCHANGED clientVars

intercept_unary_unary(headers, details, request, answer) ==
    /\ icpt' = [shape |-> "unary_unary", headers |-> headers, inp |-> details,
                out |-> insert_headers(headers, details),
                request |-> request, passed |-> request, continuations |-> 1,
                transport |-> answer, result |-> Propagate(answer),
                prevShape |-> icpt.shape, prevOut |-> icpt.out]
    /\ UNCHANGED clientVars

\* Mutant: the continuation is given the call details as they came in.
intercept_stream_stream_asis(headers, details, request_iterator, answer) ==
    /\ icpt' = [shape |-> "stream_stream", headers |-> headers, inp |-> details,
                out |-> details,
                request |-> request_iterator, passed |-> request_iterator,
                continuations |-> 1,
                transport |-> answer, result |-> Propagate(answer),
                prevShape |-> icpt.shape, prevOut |-> icpt.out]
    /\ UNCHANGED clientVars

intercept_stream_stream(headers, details, request_iterator, answer) ==
    /\ icpt' = [shape |-> "stream_stream", headers |-> headers, inp |-> details,
                out |-> insert_headers(headers, details),
                request |-> request_iterator, passed |-> request_iterator,
                continuations |-> 1,
                transport |-> answer, result |-> Propagate(answer),
                prevShape |-> icpt.shape, prevOut |-> icpt.out]
    /\ UNCHANGED clientVars

\* ------------------------------------------------------- specifications
\* The subscribe call of a behaviour that follows one subscription.
FirstSubscribe(requests) == gens = <<>> /\ subscribe(requests)

\* The client: its life cycle, scoped use, the unary operations and the
\* opening and closing of subscriptions.
Next ==
    \/ start
    \/ close
    \/ aenter
    \/ \E p \in ExitPaths : aexit(p)
    \/ \E op \in UnaryOps, a \in {"response"} \cup RpcErrors : Unary(op, a)
    \/ \E rs \in SeqsUpTo(Requests, MaxReqs) : FirstSubscribe(rs)
    \/ \E g \in 1..Len(gens) : PullFirst(g)
    \/ \E g \in 1..Len(gens) : Finalize(g)
    \/ \E g \in 1..Len(gens) : CancelPull(g)

Spec == Init /\ [][Next]_vars

\* One subscription from its creation to its end, with the transport and
\* the server acting on its stream. Generators share nothing but the stub
\* they read at their first pull.
NextSub ==
    \/ start
    \/ close
    \/ \E rs \in SeqsUpTo(Requests, MaxReqs) : FirstSubscribe(rs)
    \/ \E g \in 1..Len(gens) : PullFirst(g)
    \/ \E g \in 1..Len(gens) : PullNext(g)
    \/ \E g \in 1..Len(gens) : Resume(g)
    \/ \E g \in 1..Len(gens) : PullEnded(g)
    \/ \E g \in 1..Len(gens) : ConsumerStop(g)
    \/ \E g \in 1..Len(gens) : Finalize(g)
    \/ \E g \in 1..Len(gens) : CancelPull(g)
    \/ \E s \in 1..Len(streams) : TransportSend(s)
    \/ \E s \in 1..Len(streams), u \in Updates : ServerPush(s, u)
    \/ \E s \in 1..Len(streams) : ServerEnd(s)
    \/ \E s \in 1..Len(streams), e \in RpcErrors : StreamFail(s, e)

\* The token plays no part in a subscription once its stream is open: the
\* client of these behaviours is constructed with the first token.
InitSub == Init /\ x_token = "tokA"

SpecSub == InitSub /\ [][NextSub]_vars

\* The interceptors on their own: one call of an interceptor, with any
\* headers and any call details, then one call of the interceptor of the
\* other shape, constructed with the same headers, on the same call details
\* and request.
NextIcpt ==
    \/ /\ icpt = IcptIdle
       /\ \/ \E h \in SeqsUpTo(Pairs, MaxHeaders), d \in DetailsInputs,
                r \in Requests, a \in {"response"} \cup RpcErrors :
                  intercept_unary_unary(h, d, r, a)
          \/ \E h \in SeqsUpTo(Pairs, MaxHeaders), d \in DetailsInputs,
                r \in Requests, a \in {"call"} \cup RpcErrors :
                  intercept_stream_stream(h, d, r, a)
    \/ /\ icpt.shape = "stream_stream"
       /\ icpt.prevShape = "none"
       /\ \E a \in {"response"} \cup RpcErrors :
             intercept_unary_unary(icpt.headers, icpt.inp, icpt.request, a)
    \/ /\ icpt.shape = "unary_unary"
       /\ icpt.prevShape = "none"
       /\ \E a \in {"call"} \cup RpcErrors :
             intercept_stream_stream(icpt.headers, icpt.inp, icpt.request, a)

SpecIcpt == Init /\ [][NextIcpt]_vars

\* Fairness: the event loop runs the transport's sender while a request is
\* pending and resumes a generator whose read can complete. Nothing obliges
\* the consumer to pull, stop, close or drop its generator, nor the server
\* to send.
\* A scoped client with one subscription: `async with GeyserClient(...)`,
\* a subscription consumed inside the body, the scope left at any moment
\* and by any path; then start() and close() once more. After the exit the
\* client holds nothing a fresh client's start() would not overwrite, so the
\* later start()/close() pair is run on the references as the exit left
\* them; a start() is followed by its close() before the next start().
LaterStart == scope = "exited" /\ channel.ref # "bound" /\ start

LaterClose == scope = "exited" /\ close

NextScoped ==
    \/ aenter
    \/ \E p \in ExitPaths : aexit(p)
    \/ LaterStart
    \/ LaterClose
    \/ \E rs \in SeqsUpTo(Requests, MaxReqs) : FirstSubscribe(rs)
    \/ \E g \in 1..Len(gens) : PullFirst(g)
    \/ \E g \in 1..Len(gens) : PullNext(g)
    \/ \E g \in 1..Len(gens) : Resume(g)
    \/ \E g \in 1..Len(gens) : CancelPull(g)
    \/ \E s \in 1..Len(streams) : TransportSend(s)
    \/ \E s \in 1..Len(streams), u \in Updates : ServerPush(s, u)
    \/ \E s \in 1..Len(streams) : ServerEnd(s)
    \/ \E s \in 1..Len(streams), e \in RpcErrors : StreamFail(s, e)

SpecScoped == InitSub /\ [][NextScoped]_vars

\* Sequential use: a subscription is consumed until it has ended or its
\* consumer has left its loop; only then is subscribe called again, once.
\* The requests passed to the two calls together, and the updates the server
\* pushes on all the streams together, are bounded; the updates are all the
\* same one, and so are the errors a stream fails with.
RECURSIVE RequestsPassed(_)
RequestsPassed(n) ==
    IF n = 0 THEN 0 ELSE Len(gens[n].reqs) + RequestsPassed(n - 1)

RECURSIVE UpdatesPushed(_)
UpdatesPushed(n) ==
    IF n = 0 THEN 0 ELSE Len(streams[n].inbound) + UpdatesPushed(n - 1)

FirstStart == chans = <<>> /\ start

Resubscribe(requests) ==
    /\ Len(gens) = 1
    /\ \/ gens[1].state \in {"done", "failed", "closed"}
       \/ gens[1].consumer = "stopped"
    /\ subscribe(requests)

NextMulti ==
    \/ FirstStart
    \/ close
    \/ \E rs \in SeqsUpTo(Requests, MaxReqs) : FirstSubscribe(rs)
    \/ \E rs \in SeqsUpTo(Requests, MaxReqs) :
          /\ RequestsPassed(Len(gens)) + Len(rs) <= MaxReqs
          /\ Resubscribe(rs)
    \/ \E g \in 1..Len(gens) : PullFirst(g)
    \/ \E g \in 1..Len(gens) : PullNext(g)
    \/ \E g \in 1..Len(gens) : Resume(g)
    \/ \E g \in 1..Len(gens) : PullEnded(g)
    \/ \E g \in 1..Len(gens) : ConsumerStop(g)
    \/ \E g \in 1..Len(gens) : Finalize(g)
    \/ \E s \in 1..Len(streams) : TransportSend(s)
    \/ /\ UpdatesPushed(Len(streams)) < MaxUpdates
       /\ \E s \in 1..Len(streams), u \in {"u1"} : ServerPush(s, u)
    \/ \E s \in 1..Len(streams) : ServerEnd(s)
    \/ \E s \in 1..Len(streams), e \in {"UNAVAILABLE"} : StreamFail(s, e)

SpecMulti == InitSub /\ [][NextMulti]_vars

FairSub ==
    /\ SpecSub
    /\ WF_vars(\E s \in 1..Len(streams) : TransportSend(s))
    /\ WF_vars(\E g \in 1..Len(gens) : Resume(g))

\* ================================================================ claims
IsPrefix(a, b) ==
    /\ Len(a) <= Len(b)
    /\ \A i \in 1..Len(a) : a[i] = b[i]

Intercepted == icpt.shape # "none"

\* The metadata an intercepted call came with, None read as empty.
IcptM == IF icpt.inp.metadata.none THEN <<>> ELSE icpt.inp.metadata.items

\* C1: for every existing metadata M (None counted as empty) and injected
\* pairs P, the call details returned carry exactly M followed by P: M's
\* elements keep their places, and every pair of P follows, also one that
\* M already holds.
C1_MetadataIsMThenP ==
    Intercepted =>
        /\ ~icpt.out.metadata.none
        /\ Len(icpt.out.metadata.items) = Len(IcptM) + Len(icpt.headers)
        /\ \A i \in 1..Len(IcptM) : icpt.out.metadata.items[i] = IcptM[i]
        /\ \A j \in 1..Len(icpt.headers) :
              icpt.out.metadata.items[Len(IcptM) + j] = icpt.headers[j]

\* A call whose metadata already holds the pair being injected.
C1_Witness ==
    /\ Intercepted
    /\ IcptM = <<<<"k", "v">>, <<"x-token", "tokA">>>>
    /\ icpt.headers = <<<<"x-token", "tokA">>>>
    /\ Len(icpt.out.metadata.items) = 3

\* The metadata the client's own operations hand to the stub: none.
OwnMetadata == <<>>

\* C2: every call that reaches the transport through the client, unary or
\* subscribe, carries the ("x-token", v) pair after the metadata it had,
\* v being the token the client was constructed with; every interceptor of
\* every channel holds that pair; and v never changes, whatever start,
\* close and calls are performed.
C2_State ==
    /\ lastCall.attempts > 0 =>
          /\ ~lastCall.sent.metadata.none
          /\ lastCall.sent.metadata.items = OwnMetadata \o <<<<"x-token", x_token>>>>
    /\ \A s \in 1..Len(streams) :
          streams[s].metadata = OwnMetadata \o <<<<"x-token", x_token>>>>
    /\ \A c \in 1..Len(chans) :
          \A i \in 1..Len(chans[c].interceptors) :
              chans[c].interceptors[i].headers = <<<<"x-token", x_token>>>>

C2_TokenOnEveryCall == [](C2_State) /\ [][x_token' = x_token]_vars

\* After start, close, start: a unary call and a subscription on the
\* second channel, with the second of the two tokens.
C2_Witness ==
    /\ x_token = "tokB"
    /\ Len(chans) = 2
    /\ ~chans[1].open
    /\ lastCall.op = "get_version"
    /\ lastCall.attempts = 1
    /\ \E s \in 1..Len(streams) : streams[s].chan = 2

\* C3: once close() has completed, the stub no longer refers to the closed
\* channel; a unary operation called then raises at once, with no attempt
\* made on the transport; the first pull of a subscribe sequence then
\* raises at once and opens no stream; and an open stream is never on a
\* closed channel.
C3_FailFastAfterClose ==
    /\ \A c \in 1..Len(chans) :
          ~chans[c].open => (stub # Bound(c) /\ channel # Bound(c))
    /\ (lastCall.op = "close" /\ lastCall.result = "return") =>
          (stub = NoneRef /\ channel = NoneRef)
    /\ (lastCall.op \in UnaryOps /\ lastCall.stubAt = "none") =>
          /\ lastCall.result = "AttributeError"
          /\ lastCall.attempts = 0
          /\ lastCall.sent = NoDetails
    /\ \A g \in 1..Len(gens) :
          gens[g].stubAt = "none" =>
              /\ gens[g].state = "failed"
              /\ gens[g].err = "AttributeError"
              /\ gens[g].stream = 0
              /\ gens[g].yielded = <<>>
    /\ \A s \in 1..Len(streams) :
          streams[s].status = "open" => chans[streams[s].chan].open

\* start() then close(), then a ping and the first pull of a subscription.
C3_Witness ==
    /\ Len(chans) = 1
    /\ ~chans[1].open
    /\ streams = <<>>
    /\ lastCall.op = "ping"
    /\ lastCall.stubAt = "none"
    /\ lastCall.result = "AttributeError"
    /\ \E g \in 1..Len(gens) : gens[g].stubAt = "none" /\ gens[g].state = "failed"

\* C4: in scoped use the channel is opened on entry and is the client's
\* channel throughout the body; whichever way the body is left (return,
\* error, cancellation), the channel opened on entry is closed once the
\* scope has been left.
C4_ScopeClosesChannel ==
    /\ scope = "body" =>
          /\ scopeChan \in 1..Len(chans)
          /\ chans[scopeChan].open
          /\ channel = Bound(scopeChan)
          /\ stub = Bound(scopeChan)
    /\ scope = "exited" =>
          /\ exitPath \in ExitPaths
          /\ scopeChan \in 1..Len(chans)
          /\ ~chans[scopeChan].open

\* The body is cancelled while a subscription is open on the channel.
C4_Witness ==
    /\ scope = "exited"
    /\ exitPath = "cancel"
    /\ ~chans[scopeChan].open
    /\ \E s \in 1..Len(streams) :
          streams[s].chan = scopeChan /\ streams[s].status = "cancelled"

\* C5: the requests sent on a subscription's stream are at every moment
\* the first requests given to subscribe, in the order given, each once;
\* while the stream is open and some are unsent, the next one is due; and
\* no generator has more than its one stream.
C5_RequestsInOrder ==
    /\ Len(streams) <= Len(gens)
    /\ \A g \in 1..Len(gens) :
          gens[g].stream # 0 =>
              /\ gens[g].stream \in 1..Len(streams)
              /\ IsPrefix(streams[gens[g].stream].sent, gens[g].reqs)
              /\ (/\ streams[gens[g].stream].status = "open"
                  /\ Len(streams[gens[g].stream].sent) < Len(gens[g].reqs))
                 => ENABLED TransportSend(gens[g].stream)
    /\ \A g, h \in 1..Len(gens) :
          (g # h /\ gens[g].stream # 0) => gens[g].stream # gens[h].stream

\* subscribe(r2, r1): both sent, r2 first.
C5_Witness ==
    \E g \in 1..Len(gens) :
        /\ gens[g].reqs = <<"r2", "r1">>
        /\ gens[g].stream # 0
        /\ streams[gens[g].stream].sent = <<"r2", "r1">>

\* C6: what a subscription has yielded is at every moment the first
\* updates its stream received from the server, in that order, none
\* skipped or repeated.
C6_YieldedIsPrefix ==
    \A g \in 1..Len(gens) :
        IF gens[g].stream = 0
        THEN gens[g].yielded = <<>>
        ELSE /\ IsPrefix(gens[g].yielded, streams[gens[g].stream].inbound)
             /\ Len(gens[g].yielded) = streams[gens[g].stream].read

\* Two different updates yielded, the server having sent u2 before u1.
C6_Witness ==
    \E g \in 1..Len(gens) : gens[g].yielded = <<"u2", "u1">>

StoppedWithOpenStream ==
    \E g \in 1..Len(gens) :
        /\ gens[g].consumer = "stopped"
        /\ gens[g].stream # 0
        /\ streams[gens[g].stream].status = "open"

\* C7: if the consumer stops pulling before the server ends the stream,
\* the stream is eventually closed or cancelled.
C7_StoppedStreamIsReleased == StoppedWithOpenStream ~> ~StoppedWithOpenStream

\* C8: a stream error ends the sequence with that very error: the
\* generator fails with the stream's error only after yielding every
\* update received before it, and never ends normally on a failed stream;
\* once failed it yields nothing more; and no second stream is opened.
C8_State ==
    /\ Len(streams) <= Len(gens)
    /\ \A g \in 1..Len(gens) :
          /\ (gens[g].state = "failed" /\ gens[g].err \in RpcErrors) =>
                /\ gens[g].stream # 0
                /\ streams[gens[g].stream].status = "error"
                /\ gens[g].err = streams[gens[g].stream].err
                /\ gens[g].yielded = streams[gens[g].stream].inbound
          /\ (gens[g].stream # 0 /\ streams[gens[g].stream].status = "error") =>
                gens[g].state # "done"
          /\ (/\ gens[g].state = "waiting"
              /\ streams[gens[g].stream].status = "error"
              /\ streams[gens[g].stream].read = Len(streams[gens[g].stream].inbound))
             => ENABLED Resume(g)

C8_AfterFailure ==
    \A g \in 1..Len(gens) :
        gens[g].state = "failed" =>
            /\ gens'[g].state = "failed"
            /\ gens'[g].err = gens[g].err
            /\ gens'[g].yielded = gens[g].yielded
            /\ gens'[g].stream = gens[g].stream
            /\ Len(streams') = Len(streams)

C8_StreamErrorSurfaces == [](C8_State) /\ [][C8_AfterFailure]_vars

\* One update yielded, then the stream fails and the pull raises its error.
C8_Witness ==
    \E g \in 1..Len(gens) :
        /\ gens[g].state = "failed"
        /\ gens[g].err = "UNAUTHENTICATED"
        /\ gens[g].yielded = <<"u1">>
        /\ gens[g].last = "error"

\* C9: a unary operation makes at most one attempt on the transport, and
\* what the transport answers, a response or an RPC error, is what the
\* caller gets: a failure is neither retried nor turned into a return.
C9_UnaryFailurePropagates ==
    lastCall.op \in UnaryOps =>
        /\ lastCall.attempts <= 1
        /\ lastCall.attempts = 1 => lastCall.result = lastCall.transport
        /\ lastCall.transport \in RpcErrors => lastCall.result \in RpcErrors
        /\ lastCall.attempts = 0 => lastCall.result \in {"AttributeError", "UsageError"}

C9_Witness ==
    /\ lastCall.op = "get_block_height"
    /\ lastCall.attempts = 1
    /\ lastCall.transport = "UNAUTHENTICATED"
    /\ lastCall.result = "UNAUTHENTICATED"

\* C10: the call details handed to the continuation have the method,
\* timeout, credentials and wait_for_ready of the incoming call details.
C10_OtherFieldsUnchanged ==
    Intercepted =>
        /\ icpt.out.method = icpt.inp.method
        /\ icpt.out.timeout = icpt.inp.timeout
        /\ icpt.out.credentials = icpt.inp.credentials
        /\ icpt.out.wait_for_ready = icpt.inp.wait_for_ready

\* A call with every optional field set.
C10_Witness ==
    /\ Intercepted
    /\ icpt.inp.method = "/geyser.Geyser/Subscribe"
    /\ icpt.inp.timeout = "5s"
    /\ icpt.inp.credentials = "call_creds"
    /\ icpt.inp.wait_for_ready = "True"
    /\ icpt.headers # <<>>

\* C11: called on equal call details with equal injected pairs, the
\* unary-unary and the stream-stream interceptor pass equal call details
\* to their continuations: the same metadata sequence and the same other
\* fields.
C11_SameTransformation ==
    icpt.prevShape # "none" =>
        /\ icpt.prevShape # icpt.shape
        /\ icpt.out = icpt.prevOut
        /\ icpt.out.metadata.items = icpt.prevOut.metadata.items

\* The unary-unary interceptor, then the stream-stream one, on a call that
\* has metadata of its own.
C11_Witness ==
    /\ icpt.prevShape = "unary_unary"
    /\ icpt.shape = "stream_stream"
    /\ icpt.inp.metadata.items = <<<<"k", "v">>>>
    /\ icpt.headers = <<<<"x-token", "tokA">>>>
    /\ icpt.out.metadata.items = <<<<"k", "v">>, <<"x-token", "tokA">>>>

\* C14: an interceptor awaits its continuation exactly once per call,
\* whatever the continuation answers, and hands it the request (or request
\* iterator) it was given.
C14_ContinuationOnceSameRequest ==
    Intercepted =>
        /\ icpt.continuations = 1
        /\ icpt.passed = icpt.request
        /\ icpt.result = icpt.transport

\* A unary call whose continuation fails.
C14_Witness ==
    /\ icpt.shape = "unary_unary"
    /\ icpt.request = "r2"
    /\ icpt.passed = "r2"
    /\ icpt.transport = "UNAVAILABLE"
    /\ icpt.continuations = 1

\* C12: once the scope has been left, whatever the subscription was doing,
\* the channel the scope opened is closed, no stream on it is open and the
\* client no longer refers to it; a start() after the exit followed by a
\* close() returns normally and leaves no channel and no stream open.
C12_State ==
    scope = "exited" =>
        /\ ~chans[scopeChan].open
        /\ \A s \in 1..Len(streams) :
              streams[s].chan = scopeChan => streams[s].status # "open"
        /\ stub # Bound(scopeChan)
        /\ channel # Bound(scopeChan)

C12_LaterClose ==
    (scope = "exited" /\ channel.ref = "bound" /\ lastCall'.op = "close") =>
        /\ lastCall'.result = "return"
        /\ \A c \in 1..Len(chans') : ~chans'[c].open
        /\ \A s \in 1..Len(streams') : streams'[s].status # "open"

C12_ScopeExitReleasesStream == [](C12_State) /\ [][C12_LaterClose]_vars

\* The consumer has received the first update and waits for the next when
\* the scope is left; afterwards start() and close() have run once more.
C12_Witness ==
    /\ scope = "exited"
    /\ Len(gens) = 1
    /\ Len(gens[1].yielded) = 1
    /\ gens[1].stream = 1
    /\ streams[1].chan = scopeChan
    /\ streams[1].status = "cancelled"
    /\ Len(chans) = 2
    /\ ~chans[1].open
    /\ ~chans[2].open
    /\ lastCall.op = "close"
    /\ lastCall.result = "return"

\* C13: in every reachable state at most one subscription stream is open
\* on a given channel.
C13_OneOpenPerChannel ==
    \A s1, s2 \in 1..Len(streams) :
        (/\ streams[s1].status = "open"
         /\ streams[s2].status = "open"
         /\ streams[s1].chan = streams[s2].chan) => s1 = s2

\* C15: a generator that has ended (end of stream, error, or close) stays
\* ended: a further pull from it only reports the end, yields no update and
\* opens no stream. Updates flow again only through the generator of a new
\* subscribe call, whose first pull opens a stream of its own, not yet sent
\* on, that carries that call's requests from the first one on.
Ended(g) == gens[g].state \in {"done", "failed", "closed"}

C15_EndedStays ==
    \A g \in 1..Len(gens) :
        Ended(g) =>
            /\ gens'[g].state = gens[g].state
            /\ gens'[g].yielded = gens[g].yielded
            /\ gens'[g].stream = gens[g].stream
            /\ gens'[g] # gens[g] =>
                  /\ gens'[g].last = "stop"
                  /\ streams' = streams

C15_NewCallNewStream ==
    \A g \in 1..Len(gens') :
        (gens'[g].stream # 0 /\ (g > Len(gens) \/ gens[g].stream = 0)) =>
            /\ gens[g].state = "created"
            /\ gens'[g].stream = Len(streams) + 1
            /\ Len(streams') = Len(streams) + 1
            /\ streams'[gens'[g].stream].src = gens'[g].reqs
            /\ streams'[gens'[g].stream].sent = <<>>
            /\ streams'[gens'[g].stream].status = "open"

C15_State ==
    \A g \in 1..Len(gens) :
        gens[g].stream # 0 =>
            /\ IsPrefix(streams[gens[g].stream].sent, gens[g].reqs)
            /\ \A h \in 1..Len(gens) : gens[h].stream = gens[g].stream => h = g

C15_NotRestartable ==
    [](C15_State) /\ [][C15_EndedStays /\ C15_NewCallNewStream]_vars

\* The first generator has ended and has been pulled once more; the second
\* call's generator has its own stream, its request has been sent and an
\* update has come through it.
C15_Witness ==
    /\ Len(gens) = 2
    /\ gens[1].state = "done"
    /\ gens[1].last = "stop"
    /\ gens[1].reqs = <<"r1">>
    /\ streams[1].sent = <<"r1">>
    /\ gens[2].stream = 2
    /\ gens[2].reqs = <<"r1">>
    /\ streams[2].sent = <<"r1">>
    /\ gens[2].yielded = <<"u1">>

\* C16: the stub and channel references of a client agree in every state:
\* both exist and are bound to the same channel, the one the latest start()
\* opened and still open; or both have been set to None by close(); or,
\* before the first start(), neither exists.
C16_RefsConsistent ==
    \/ /\ stub.ref = "bound"
       /\ channel = stub
       /\ stub.chan = Len(chans)
       /\ chans[stub.chan].open
    \/ /\ stub = NoneRef
       /\ channel = NoneRef
       /\ chans # <<>>
    \/ /\ stub = Unset
       /\ channel = Unset
       /\ chans = <<>>

\* start(), close(), start(): both references are bound to the second
\* channel.
C16_Witness ==
    /\ Len(chans) = 2
    /\ ~chans[1].open
    /\ chans[2].open
    /\ stub = Bound(2)
    /\ channel = Bound(2)

\* C17: a close() made while the client holds no channel (never started,
\* or already closed) raises AttributeError and changes neither reference
\* nor any channel or stream; a close() made while it holds one returns
\* normally.
C17_CloseStep ==
    (lastCall'.op = "close" /\ lastCall' # lastCall) =>
        IF channel.ref = "bound"
        THEN lastCall'.result = "return"
        ELSE /\ lastCall'.result = "AttributeError"
             /\ channel' = channel
             /\ stub' = stub
             /\ chans' = chans
             /\ streams' = streams

C17_CloseNotIdempotent == [][C17_CloseStep]_vars

\* start(), close(), close(): the second close() has raised.
C17_Witness ==
    /\ Len(chans) = 1
    /\ ~chans[1].open
    /\ channel = NoneRef
    /\ stub = NoneRef
    /\ lastCall.op = "close"
    /\ lastCall.result = "AttributeError"

\* C18: a step that opens a channel leaves every earlier channel as it was;
\* a channel is closed only by a close() made while the client refers to
\* it; so an open channel the client no longer refers to stays open, and
\* every open channel but the latest is one the client does not refer to.
C18_Step ==
    /\ Len(chans') > Len(chans) =>
          \A c \in 1..Len(chans) : chans'[c] = chans[c]
    /\ \A c \in 1..Len(chans) :
          (chans[c].open /\ ~chans'[c].open) =>
              (channel = Bound(c) /\ lastCall'.op = "close")
    /\ \A c \in 1..Len(chans) :
          (chans[c].open /\ channel # Bound(c)) => chans'[c].open

C18_State ==
    \A c \in 1..Len(chans) :
        (chans[c].open /\ c < Len(chans)) =>
            (channel # Bound(c) /\ stub # Bound(c))

C18_StartLeavesOldChannelOpen == [](C18_State) /\ [][C18_Step]_vars

\* start(), start(), close().
C18_Witness ==
    /\ Len(chans) = 2
    /\ chans[1].open
    /\ ~chans[2].open
    /\ channel = NoneRef
    /\ stub = NoneRef
    /\ lastCall.op = "close"
    /\ lastCall.result = "return"

\* C19: every channel has two interceptors, of which exactly one applies
\* to a unary call and exactly one to a subscribe call; what reaches the
\* transport for any call, however many calls came before it, holds exactly
\* one x-token pair; and no step changes the pairs an installed interceptor
\* was constructed with.
TokenPairs(items) == SelectSeq(items, LAMBDA p : p[1] = "x-token")

C19_State ==
    /\ \A c \in 1..Len(chans) :
          /\ Len(chans[c].interceptors) = 2
          /\ Len(InterceptorsFor(c, "unary_unary")) = 1
          /\ Len(InterceptorsFor(c, "stream_stream")) = 1
          /\ \A i \in 1..Len(chans[c].interceptors) :
                chans[c].interceptors[i].headers = <<<<"x-token", x_token>>>>
    /\ lastCall.attempts = 1 =>
          /\ Len(TokenPairs(lastCall.sent.metadata.items)) = 1
          /\ Len(lastCall.sent.metadata.items) = 1
    /\ \A s \in 1..Len(streams) :
          /\ Len(TokenPairs(streams[s].metadata)) = 1
          /\ Len(streams[s].metadata) = 1

C19_InjectorUnchanged ==
    \A c \in 1..Len(chans) : chans'[c].interceptors = chans[c].interceptors

C19_AugmentedExactlyOnce == [](C19_State) /\ [][C19_InjectorUnchanged]_vars

\* A subscribe call and then a unary call on the same channel.
C19_Witness ==
    /\ Len(streams) = 1
    /\ streams[1].chan = 1
    /\ streams[1].metadata = <<<<"x-token", x_token>>>>
    /\ lastCall.op = "get_version"
    /\ lastCall.attempts = 1
    /\ stub = Bound(1)
    /\ lastCall.sent.metadata.items = <<<<"x-token", x_token>>>>

\* C20: a subscribe call creates a generator and nothing else: no stream
\* is opened and nothing is sent. A stream is opened only by the first pull
\* of a generator, with nothing sent yet, and requests are only ever sent
\* on the stream of a generator that has been pulled. A first pull made
\* while the client has no stub (before start(), or after close()) fails
\* with AttributeError and opens no stream.
C20_State ==
    /\ \A g \in 1..Len(gens) : gens[g].state = "created" => gens[g].stream = 0
    /\ \A s \in 1..Len(streams) :
          \E g \in 1..Len(gens) :
              /\ gens[g].stream = s
              /\ gens[g].state # "created"
              /\ IsPrefix(streams[s].sent, gens[g].reqs)

C20_Step ==
    /\ Len(gens') > Len(gens) =>
          /\ streams' = streams
          /\ gens'[Len(gens')].state = "created"
          /\ gens'[Len(gens')].stream = 0
    /\ Len(streams') > Len(streams) =>
          \E g \in 1..Len(gens) :
              /\ gens[g].state = "created"
              /\ gens'[g].state = "waiting"
              /\ gens'[g].stream = Len(streams')
              /\ streams'[Len(streams')].sent = <<>>
    /\ \A g \in 1..Len(gens) :
          (/\ gens[g].state = "created"
           /\ gens'[g].state \notin {"created", "closed"}
           /\ stub.ref # "bound") =>
              /\ gens'[g].state = "failed"
              /\ gens'[g].err = "AttributeError"
              /\ streams' = streams

C20_SubscribeIsLazy == [](C20_State) /\ [][C20_Step]_vars

\* start(), subscribe(r1), close(), then the first pull.
C20_Witness ==
    /\ Len(chans) = 1
    /\ ~chans[1].open
    /\ stub = NoneRef
    /\ Len(gens) = 1
    /\ gens[1].reqs = <<"r1">>
    /\ gens[1].state = "failed"
    /\ gens[1].err = "AttributeError"
    /\ gens[1].stubAt = "none"
    /\ streams = <<>>
====
